---- MODULE Spec2Model ----
(***************************************************************************)
(* OpenFMR: the field-range planner and autophase estimator of the         *)
(* acquisition script (software/fmr.py) and the fit batch of the analysis  *)
(* program (software/OpenFMR_Fit.py).                                      *)
(*                                                                         *)
(* Numbers.  Fields are integers in units of 1 mT.  A plan returned by     *)
(* calc_B_range is kept exactly, as the numerators of its values over the  *)
(* denominator `sampling` (step = deltaB / sampling is then the integer    *)
(* deltaB), so the rational arithmetic of the code is modelled without     *)
(* rounding.  Binary floating-point rounding itself is not modelled.       *)
(***************************************************************************)
EXTENDS Integers, Sequences, FiniteSets, TLC

VARIABLES
    plan,       \* the last call of the planner (calc_B_range / field_sweep) and its result
    phase,      \* the last call of autophase and its result
    fitcall,    \* the last call of Fit.KittelFit / Fit.DampingFit and its outcome
    datasets, frequencies, checkState, fitProfile, mode,   \* MainWindow: loaded data and widgets
    fitparameters, linefits, checked,                \* MainWindow: per-dataset fit state
    KittelAnalysis, LinewidthAnalysis, report,       \* MainWindow: aggregate results
    pc, idx, local, raised,     \* fitAll: position, loop index, local variables, uncaught exception
    est,        \* the last call of Fit.fit_derivative up to its guess vector
    disp,       \* the last evaluation of the out-of-plane resonance field and dispersion
    lf,         \* concurrent invocations of Fit.LineFit, one per dataset
    stdout,     \* what has been written to the standard output
    written,    \* the last export: the files it wrote, in order, and what it raised
    meas,       \* one FMR instance: its STOP flag and the progress of fmr_measurement
    acq         \* acquisition window: buttons, self.fmr, FMR instances, run_script threads

planVars == <<plan>>
phaseVars == <<phase>>
fitVars == <<fitcall>>
guiVars == <<datasets, frequencies, checkState, fitProfile, mode, fitparameters, linefits,
             checked, KittelAnalysis, LinewidthAnalysis, report, pc, idx, local, raised>>
estVars == <<est, disp, lf>>
ioVars == <<stdout, written>>
acqVars == <<meas, acq>>
vars == <<plan, phase, fitcall, datasets, frequencies, checkState, fitProfile, mode,
          fitparameters, linefits, checked, KittelAnalysis, LinewidthAnalysis, report,
          pc, idx, local, raised, est, disp, lf, stdout, written, meas, acq>>

(***************************************************************************)
(* Bounds of the model.                                                    *)
(***************************************************************************)
MaxB0 == 3
MaxDeltaB == 2
MaxMultiplier == 2
MaxSampling == 3
MaxOffset == 1
MaxSamples == 2     \* longest X, Y given to autophase
MaxAmp == 1         \* largest |sample| of X, Y
MaxPoints == 3      \* most data points given to KittelFit / DampingFit
MaxDatasets == 2    \* most datasets in a loaded archive
MaxFitValue == 1    \* largest fitted g (and M in kA/m) the Kittel fit returns
MaxArchive == 3     \* most datasets in the archive of a single fitAll
MaxCurve == 3       \* most samples of a sweep curve given to fit_derivative
MaxSignal == 1      \* largest magnitude of a signal sample
MaxStep == 2        \* largest step of the field axis
MaxThreads == 2     \* most invocations of LineFit running at once
LineFitSamples == 2 \* samples of each dataset given to them
MaxFreq == 5        \* largest frequency (GHz) put into the Kittel relations
MaxMag == 3         \* largest magnitude of the effective magnetization (100 kA/m)
MaxGFactor == 2     \* largest g-factor put into the Kittel relations
MaxFrequencies == 2 \* most frequencies of one fmr_measurement
MaxSweepPoints == 2 \* most field points of one sweep plan
MaxRuns == 2        \* most clicks on Start that get past the file check

(***************************************************************************)
(* Helpers: integer ceiling, numpy.arange in exact arithmetic.             *)
(***************************************************************************)
CeilDiv(a, b) == -((-a) \div b)

\* numpy.arange(start, stop, step), step > 0: ceil((stop - start)/step) values
\* start + i*step, none of them reaching stop.
arange(start, stop, step) ==
    LET n == IF stop > start THEN CeilDiv(stop - start, step) ELSE 0
    IN  [i \in 1..n |-> start + (i - 1) * step]

Last(s) == s[Len(s)]

(***************************************************************************)
(* FMR.calc_B_range.  The result is the sequence of numerators over the    *)
(* denominator `sampling`.                                                 *)
(***************************************************************************)
calc_B_range_noclip(B0, deltaB, multiplier, sampling, offset) ==
    LET start == B0 - multiplier * deltaB
        stop == B0 + multiplier * deltaB
        stepN == deltaB
        grid == arange(sampling * start, sampling * stop + stepN, stepN)
    IN  [i \in 1..Len(grid) |-> grid[i] + sampling * offset]

calc_B_range_exclusive(B0, deltaB, multiplier, sampling, offset) ==
    LET start0 == B0 - multiplier * deltaB
        stop == B0 + multiplier * deltaB
        stepN == deltaB
        start == IF start0 < 0 THEN 0 ELSE start0
        grid == arange(sampling * start, sampling * stop, stepN)
    IN  [i \in 1..Len(grid) |-> grid[i] + sampling * offset]

calc_B_range_step(B0, deltaB, multiplier, sampling, offset) ==
    LET start0 == B0 - multiplier * deltaB
        stop == B0 + multiplier * deltaB
        stepN == deltaB * sampling        \* step = deltaB * sampling
        start == IF start0 < 0 THEN 0 ELSE start0
        grid == arange(sampling * start, sampling * stop + stepN, stepN)
    IN  [i \in 1..Len(grid) |-> grid[i] + sampling * offset]

calc_B_range(B0, deltaB, multiplier, sampling, offset) ==
    LET start0 == B0 - multiplier * deltaB
        stop == B0 + multiplier * deltaB
        stepN == deltaB                   \* step = deltaB / sampling, over sampling
        start == IF start0 < 0 THEN 0 ELSE start0
        grid == arange(sampling * start, sampling * stop + stepN, stepN)
    IN  [i \in 1..Len(grid) |-> grid[i] + sampling * offset]

(***************************************************************************)
(* FMR.field_sweep, up to the plan it maps to magnet currents.             *)
(***************************************************************************)
HighFieldLimit == 300       \* 0.3 T

Accuracies == {"low", "medium", "high", "fine"}

\* the value of the parameter when the caller does not pass it
DefaultAccuracy == "fine"

AccuracyKnown(accuracy) == accuracy \in {"low", "medium", "high"}

AccuracyMultiplier(accuracy) ==
    CASE accuracy = "low" -> 12 [] accuracy = "medium" -> 8 [] accuracy = "high" -> 6

AccuracySampling(accuracy) ==
    CASE accuracy = "low" -> 4 [] accuracy = "medium" -> 6 [] accuracy = "high" -> 8

\* the offset field_sweep hands to calc_B_range
SweepOffset(B0, offset) == IF B0 > HighFieldLimit THEN 0 ELSE offset

NoPlan ==
    [call |-> "none", B0 |-> 0, deltaB |-> 1, multiplier |-> 0, sampling |-> 1,
     accuracy |-> DefaultAccuracy, passed |-> FALSE, offsetArg |-> 0, offset |-> 0,
     B |-> <<>>, raised |-> "none"]

\* expected resonance fields: the Kittel relations give B0 >= 0; a direct call
\* of calc_B_range may pass any B0
SweepB0 == (0..MaxB0) \cup {HighFieldLimit + 1}
PlanB0 == ((-MaxB0)..MaxB0) \cup {HighFieldLimit + 1}
Offsets == (-MaxOffset)..MaxOffset

\* the arguments of the call to come
PlanInputs ==
    \E B0 \in PlanB0, deltaB \in 1..MaxDeltaB, multiplier \in 0..MaxMultiplier,
       sampling \in 1..MaxSampling, offset \in Offsets :
        \/ \E accuracy \in Accuracies :
               plan = [NoPlan EXCEPT !.B0 = B0, !.deltaB = deltaB, !.multiplier = multiplier,
                                     !.sampling = sampling, !.offsetArg = offset,
                                     !.accuracy = accuracy, !.passed = TRUE]
        \/ plan = [NoPlan EXCEPT !.B0 = B0, !.deltaB = deltaB, !.multiplier = multiplier,
                                 !.sampling = sampling, !.offsetArg = offset]

CallCalcBRange ==
    /\ plan.call = "none"
    /\ plan' = [plan EXCEPT !.call = "calc_B_range", !.offset = plan.offsetArg,
                            !.B = calc_B_range(plan.B0, plan.deltaB, plan.multiplier,
                                               plan.sampling, plan.offsetArg)]
    /\ UNCHANGED <<ioVars, acqVars, phaseVars, fitVars, guiVars, estVars>>

field_sweep ==
    /\ plan.call = "none"
    /\ plan.B0 \in SweepB0
    /\ IF ~AccuracyKnown(plan.accuracy)
       THEN /\ plan' = [plan EXCEPT !.call = "field_sweep", !.raised = "ValueError"]
            /\ UNCHANGED stdout
       ELSE LET multiplier == AccuracyMultiplier(plan.accuracy)
                sampling == AccuracySampling(plan.accuracy)
                off == SweepOffset(plan.B0, plan.offsetArg)
            IN  /\ plan' = [plan EXCEPT !.call = "field_sweep",
                                        !.multiplier = multiplier, !.sampling = sampling,
                                        !.offset = off,
                                        !.B = calc_B_range(plan.B0, plan.deltaB, multiplier,
                                                           sampling, off)]
                /\ stdout' = stdout \o <<<<"Expected resonance field", plan.B0>>>>
                                 \o (IF plan.B0 > HighFieldLimit
                                     THEN <<<<"High-field measurement", plan.B0>>>> ELSE <<>>)
    /\ UNCHANGED <<written, acqVars, phaseVars, fitVars, guiVars, estVars>>

(***************************************************************************)
(* Trigonometry in fixed point: numpy.sin / numpy.cos of a whole number of *)
(* degrees, as round(200 * sin(k deg)) for k = 0..90 and by symmetry.      *)
(***************************************************************************)
SinTab ==
    <<0, 3, 7, 10, 14, 17, 21, 24, 28, 31, 35, 38, 42, 45, 48, 52, 55, 58, 62, 65,
      68, 72, 75, 78, 81, 85, 88, 91, 94, 97, 100, 103, 106, 109, 112, 115, 118, 120,
      123, 126, 129, 131, 134, 136, 139, 141, 144, 146, 149, 151, 153, 155, 158, 160,
      162, 164, 166, 168, 170, 171, 173, 175, 177, 178, 180, 181, 183, 184, 185, 187,
      188, 189, 190, 191, 192, 193, 194, 195, 196, 196, 197, 198, 198, 199, 199, 199,
      200, 200, 200, 200, 200>>

Abs(v) == IF v < 0 THEN -v ELSE v
Sin(deg) == IF deg < 0 THEN -SinTab[1 - deg] ELSE SinTab[1 + deg]
Cos(deg) == SinTab[91 - Abs(deg)]

(***************************************************************************)
(* numpy.linspace(start, stop, num): num values start + i*(stop-start)/div *)
(* with div = num - 1, kept as fractions n/d.  "%i" % v truncates v toward *)
(* zero.                                                                   *)
(***************************************************************************)
linspace(start, stop, num) ==
    [i \in 1..num |-> [n |-> start * (num - 1) + (i - 1) * (stop - start), d |-> num - 1]]

Degrees(v) == v.n \div v.d
FormatInt(v) == IF v.n < 0 THEN -((-v.n) \div v.d) ELSE v.n \div v.d

NumAngles == 181

(***************************************************************************)
(* FMR.complex_rotate_array: (X + iY) * (cos p + i sin p), p = phase in    *)
(* degrees; the results carry the scale of the table.                      *)
(***************************************************************************)
complex_rotate_array_conj(X, Y, ph) ==
    [real |-> [j \in 1..Len(X) |-> X[j] * Cos(Degrees(ph)) + Y[j] * Sin(Degrees(ph))],
     imag |-> [j \in 1..Len(X) |-> Y[j] * Cos(Degrees(ph)) - X[j] * Sin(Degrees(ph))]]

complex_rotate_array(X, Y, ph) ==
    [real |-> [j \in 1..Len(X) |-> X[j] * Cos(Degrees(ph)) - Y[j] * Sin(Degrees(ph))],
     imag |-> [j \in 1..Len(X) |-> X[j] * Sin(Degrees(ph)) + Y[j] * Cos(Degrees(ph))]]

RECURSIVE SumSquares(_)
SumSquares(s) == IF s = <<>> THEN 0 ELSE s[1] * s[1] + SumSquares(Tail(s))

SetMin(S) == CHOOSE x \in S : \A y \in S : x <= y
SetMax(S) == CHOOSE x \in S : \A y \in S : x >= y

\* the index of the last occurrence of the minimum
argmin_last(s) ==
    LET m == SetMin({s[k] : k \in 1..Len(s)})
    IN  SetMax({k \in 1..Len(s) : s[k] = m})

\* numpy.argmin: the index of the first occurrence of the minimum
argmin(s) ==
    LET m == SetMin({s[k] : k \in 1..Len(s)})
    IN  SetMin({k \in 1..Len(s) : s[k] = m})

(***************************************************************************)
(* FMR.autophase.  RMS[k] is kept as the sum of squares of Y' at PHI[k]:   *)
(* the square root the code takes of it is strictly increasing, so the     *)
(* order and the ties of the list are those of the code's list.            *)
(***************************************************************************)
Only(S) == CHOOSE x \in S : TRUE

PHI == linspace(-90, 90, NumAngles)

\* the loop over PHI: the list RMS
quadrature_list(X, Y) ==
    [k \in 1..Len(PHI) |-> SumSquares(complex_rotate_array(X, Y, PHI[k]).imag)]

autophase_quadrature(X, Y) ==
    Only({[RMS |-> RMS, i |-> i,
           X_max |-> complex_rotate_array(X, Y, PHI[i]).imag,
           printed |-> FormatInt(PHI[i])] :
               <<RMS, i>> \in {<<l, argmin(l)>> : l \in {quadrature_list(X, Y)}}})

autophase(X, Y) ==
    Only({[RMS |-> RMS, i |-> i,
           X_max |-> complex_rotate_array(X, Y, PHI[i]).real,
           printed |-> FormatInt(PHI[i])] :
               <<RMS, i>> \in {<<l, argmin(l)>> : l \in {quadrature_list(X, Y)}}})

RECURSIVE SeqsUpTo(_, _)
SeqsUpTo(S, n) ==
    IF n = 0 THEN {<<>>}
    ELSE LET shorter == SeqsUpTo(S, n - 1)
         IN  shorter \cup {Append(q, v) : q \in {r \in shorter : Len(r) = n - 1}, v \in S}

Samples == (-MaxAmp)..MaxAmp

\* the arguments of the call to come: any equal-length X, Y, or the unit phasor
\* X = cos(theta), Y = sin(theta) of a whole number of degrees theta
PhaseInputs ==
    \/ \E X \in SeqsUpTo(Samples, MaxSamples) :
       \E Y \in {q \in SeqsUpTo(Samples, MaxSamples) : Len(q) = Len(X)} :
           phase = [call |-> "none", X |-> X, Y |-> Y, phasor |-> FALSE, theta |-> 0]
    \/ \E theta \in (-90)..90 :
           phase = [call |-> "none", X |-> <<Cos(theta)>>, Y |-> <<Sin(theta)>>,
                    phasor |-> TRUE, theta |-> theta]

CallAutophase ==
    /\ phase.call = "none"
    /\ \E r \in {autophase(phase.X, phase.Y)} :
           /\ phase' = [call |-> "autophase", X |-> phase.X, Y |-> phase.Y,
                        phasor |-> phase.phasor, theta |-> phase.theta, RMS |-> r.RMS,
                        i |-> r.i, X_max |-> r.X_max, printed |-> r.printed]
           /\ stdout' = stdout \o <<<<"Autophase correction", r.printed>>>>
    /\ UNCHANGED <<written, acqVars, planVars, fitVars, guiVars, estVars>>

(***************************************************************************)
(* scipy.optimize.curve_fit as the code calls it, by outcome.  Whether the *)
(* optimizer converges depends on the data; it is an input here.           *)
(*   unbounded (method lm):  empty ydata -> ValueError; fewer data points  *)
(*   than parameters -> TypeError; no convergence -> RuntimeError.         *)
(***************************************************************************)
curve_fit(nparams, ndata, converges) ==
    IF ndata = 0 THEN "ValueError"
    ELSE IF nparams > ndata THEN "TypeError"
    ELSE IF converges THEN "ok"
    ELSE "RuntimeError"

\* gamma_prime = g*e/(2*me) / (2*pi): 14 GHz/T for g = 1
gamma_prime_of(g) == 14 * g

Modes == {"in-plane", "out-of-plane"}

(***************************************************************************)
(* Fit.KittelFit(x, y, mode).  x_fit = linspace(0, max(x), 100) comes      *)
(* first: max() of an empty list raises ValueError.  A mode that is        *)
(* neither "in-plane" nor "out-of-plane" runs no branch and the return     *)
(* statement reads the unbound y_fit: UnboundLocalError.                   *)
(***************************************************************************)
KittelFit(x, y, m, converges) ==
    IF Len(x) = 0 THEN [raised |-> "ValueError", fitted |-> FALSE]
    ELSE IF m \in Modes
         THEN LET out == curve_fit(2, Len(y), converges)
              IN  [raised |-> IF out = "ok" THEN "none" ELSE out, fitted |-> TRUE]
         ELSE [raised |-> "UnboundLocalError", fitted |-> FALSE]

(***************************************************************************)
(* Fit.DampingFit(frequencies, widths, gamma_prime): curve_fit comes       *)
(* first, then x_fit = linspace(0, max(frequencies), 100).                 *)
(***************************************************************************)
DampingFit(freqs, widths, gamma_prime, converges) ==
    LET out == curve_fit(2, Len(widths), converges)
    IN  [raised |-> IF out = "ok" THEN "none" ELSE out, fitted |-> TRUE]

NumDense == 100

\* x_fit = np.linspace(0, max(values), 100)
DenseAxis_from_first(values) == linspace(0, values[1], NumDense)
DenseAxis(values) == linspace(0, SetMax({values[k] : k \in 1..Len(values)}), NumDense)

\* the fit function of each mode
KittelModel(m) ==
    IF m = "in-plane" THEN "kittel_fitfunction_inplane" ELSE "kittel_fitfunction_outofplane"

\* f(x_fit, *p): the model function applied to every value of the dense axis
\* with the fitted parameters (and the fixed gamma_prime of the damping model)
Evaluate(f, x_fit, p, gamma_prime) ==
    [k \in 1..Len(x_fit) |-> [f |-> f, at |-> x_fit[k], p |-> p, gamma_prime |-> gamma_prime]]

\* what a call returns: nothing when it raised, else x_fit, y_fit and p
NoCurve == [x_fit |-> <<>>, y_fit |-> <<>>, p |-> <<>>]
KittelFit_returns(x, m, outcome) ==
    IF outcome.raised # "none" THEN NoCurve
    ELSE LET x_fit == DenseAxis(x)
             p == <<"M", "g">>
         IN  [x_fit |-> x_fit, y_fit |-> Evaluate(KittelModel(m), x_fit, p, 0), p |-> p]
DampingFit_returns(freqs, gamma_prime, outcome) ==
    IF outcome.raised # "none" THEN NoCurve
    ELSE LET x_fit == DenseAxis(freqs)
             p == <<"alpha", "deltaB0">>
         IN  [x_fit |-> x_fit, y_fit |-> Evaluate("damping_fitfunction", x_fit, p, gamma_prime),
              p |-> p]

Points == SeqsUpTo({1, 2}, MaxPoints)

\* the arguments of the call to come
FitInputs ==
    \E x \in Points, m \in Modes \cup {"perpendicular"}, converges \in BOOLEAN :
    \E y \in {q \in Points : Len(q) = Len(x)} :
        fitcall = [call |-> "none", x |-> x, y |-> y, mode |-> m, converges |-> converges,
                   raised |-> "none", fitted |-> FALSE, x_fit |-> <<>>, y_fit |-> <<>>,
                   p |-> <<>>]

CallKittelFit ==
    /\ fitcall.call = "none"
    /\ \E r \in {KittelFit(fitcall.x, fitcall.y, fitcall.mode, fitcall.converges)} :
       \E c \in {KittelFit_returns(fitcall.x, fitcall.mode, r)} :
           fitcall' = [fitcall EXCEPT !.call = "KittelFit", !.raised = r.raised,
                                      !.fitted = r.fitted, !.x_fit = c.x_fit,
                                      !.y_fit = c.y_fit, !.p = c.p]
    /\ UNCHANGED <<ioVars, acqVars, planVars, phaseVars, guiVars, estVars>>

CallDampingFit ==
    /\ fitcall.call = "none"
    /\ \E r \in {DampingFit(fitcall.x, fitcall.y, gamma_prime_of(2), fitcall.converges)} :
       \E c \in {DampingFit_returns(fitcall.x, gamma_prime_of(2), r)} :
           fitcall' = [fitcall EXCEPT !.call = "DampingFit", !.raised = r.raised,
                                      !.fitted = r.fitted, !.x_fit = c.x_fit,
                                      !.y_fit = c.y_fit, !.p = c.p]
    /\ UNCHANGED <<ioVars, acqVars, planVars, phaseVars, guiVars, estVars>>

(***************************************************************************)
(* MainWindow of the analysis program.  A dataset is known by its          *)
(* frequency and by whether the bounded line fit converges on it (a        *)
(* property of its data).  A fit result keeps the parameter names of its   *)
(* profile and the dataset it was computed from.                           *)
(***************************************************************************)
Profiles == {"Asymmetric Lorentz", "Lorentz", "Voigt"}

\* the arguments, after the field axis B, of lorentz_derivative,
\* asymmetric_lorentz_derivative and voigt_derivative
ParameterOrder(profile) ==
    CASE profile = "Lorentz" -> <<"A", "B0", "Gamma", "offset">>
      [] profile = "Asymmetric Lorentz" -> <<"A", "B0", "Gamma", "offset", "beta">>
      [] OTHER -> <<"A", "B0", "Gamma", "sigma", "offset">>

\* the guess vector p0 of fit_derivative, by the estimate put at each place
GuessOrder_voigt_swapped(profile) ==
    CASE profile = "Lorentz" -> <<"scale", "center", "width", "offset">>
      [] profile = "Asymmetric Lorentz" -> <<"scale", "center", "width", "offset", "zero">>
      [] OTHER -> <<"scale", "center", "width", "offset", "milli">>

GuessOrder_short(profile) == <<"scale", "center", "width", "offset">>

GuessOrder(profile) ==
    CASE profile = "Lorentz" -> <<"scale", "center", "width", "offset">>
      [] profile = "Asymmetric Lorentz" -> <<"scale", "center", "width", "offset", "zero">>
      [] OTHER -> <<"scale", "center", "width", "milli", "offset">>

\* scipy.optimize.curve_fit(f, x, y, p0): popt has the length of p0, its k-th
\* entry is the fitted value of the k-th parameter of f; pcov is square of
\* that dimension
curve_fit_popt(f_args, p0, of) == [k \in 1..Len(p0) |-> [name |-> f_args[k], of |-> of]]
curve_fit_pcov(p0) == [rows |-> Len(p0), cols |-> Len(p0)]

\* Fit.LineFit -> Fit.fit_derivative: the bounded curve_fit (method trf) raises
\* RuntimeError when the optimizer does not converge on the data
LineFit(dataset, profile) ==
    IF dataset.converges
    THEN [raised |-> "none",
          p |-> curve_fit_popt(ParameterOrder(profile), GuessOrder(profile), dataset.freq),
          pcov |-> curve_fit_pcov(GuessOrder(profile)), of |-> dataset.freq]
    ELSE [raised |-> "RuntimeError", p |-> <<>>, pcov |-> [rows |-> 0, cols |-> 0],
          of |-> dataset.freq]

\* the archives loadDatasets can read: k .txt records, the i-th named by frequency i
RECURSIVE Archives(_)
Archives(k) ==
    IF k = 0 THEN {<<>>}
    ELSE LET shorter == Archives(k - 1)
         IN  shorter \cup {Append(a, [freq |-> k, converges |-> c]) :
                              a \in {r \in shorter : Len(r) = k - 1}, c \in BOOLEAN}

SelectSeq2(s, mask) ==      \* numpy boolean-mask indexing: np.array(s)[mask]
    LET F[i \in 0..Len(s)] ==
            IF i = 0 THEN <<>>
            ELSE IF mask[i] THEN Append(F[i - 1], s[i]) ELSE F[i - 1]
    IN  F[Len(s)]

\* pairs the k-th of a with the k-th from the end of b
zip_reversed(a, b) ==
    [k \in 1..(IF Len(a) < Len(b) THEN Len(a) ELSE Len(b)) |-> <<a[k], b[Len(b) + 1 - k]>>]

\* zip(a, b): pairs up to the shorter of the two
zip(a, b) ==
    [k \in 1..(IF Len(a) < Len(b) THEN Len(a) ELSE Len(b)) |-> <<a[k], b[k]>>]

\* the values the Kittel fit can return: M in A/m, g as a whole number
MValues == {1000 * k : k \in 1..MaxFitValue}
GValues == 1..MaxFitValue

\* popt of the Kittel fit, in the order of kittel_fitfunction's parameters
KittelParams(M, g) == <<[name |-> "M", v |-> M], [name |-> "g", v |-> g]>>
\* popt of the damping fit, in the order of damping_fitfunction_curry's
DampingParams == <<[name |-> "alpha"], [name |-> "deltaB0"]>>

\* g = p[1]*1e9: the frequencies are given to the Kittel fit in GHz, so the
\* fitted second parameter is g in units of 1e9; v counts those units
KittelG_first(p) == p[1].v
KittelG(p) == p[2].v

\* the locals of the running fitAll and the calls it has made to Fit
NoLocal == [g |-> 0, gamma_prime |-> 0, p |-> <<>>, message |-> <<>>, calls |-> <<>>]

loadData ==
    /\ pc = "idle"
    /\ \E a \in Archives(MaxDatasets) :
        /\ datasets' = a
        /\ frequencies' = [i \in 1..Len(a) |-> a[i].freq]
        /\ checkState' = [i \in 1..Len(a) |-> TRUE]
    /\ UNCHANGED <<ioVars, acqVars, planVars, phaseVars, fitVars, estVars, fitProfile, mode, fitparameters,
                   linefits, checked, KittelAnalysis, LinewidthAnalysis, report, pc, idx,
                   local, raised>>

\* the user ticks or unticks one item of the data overview
toggleCheck ==
    /\ pc = "idle"
    /\ \E i \in 1..Len(checkState) : checkState' = [checkState EXCEPT ![i] = ~checkState[i]]
    /\ UNCHANGED <<ioVars, acqVars, planVars, phaseVars, fitVars, estVars, datasets, frequencies, fitProfile,
                   mode, fitparameters, linefits, checked, KittelAnalysis,
                   LinewidthAnalysis, report, pc, idx, local, raised>>

selectProfile ==
    /\ pc = "idle"
    /\ \E f \in Profiles \ {fitProfile} : fitProfile' = f
    /\ UNCHANGED <<ioVars, acqVars, planVars, phaseVars, fitVars, estVars, datasets, frequencies, checkState,
                   mode, fitparameters, linefits, checked, KittelAnalysis,
                   LinewidthAnalysis, report, pc, idx, local, raised>>

selectMode ==
    /\ pc = "idle"
    /\ \E m \in Modes \ {mode} : mode' = m
    /\ UNCHANGED <<ioVars, acqVars, planVars, phaseVars, fitVars, estVars, datasets, frequencies, checkState,
                   fitProfile, fitparameters, linefits, checked, KittelAnalysis,
                   LinewidthAnalysis, report, pc, idx, local, raised>>

(***************************************************************************)
(* MainWindow.fitAll, in the order of its statements.  An exception raised *)
(* by a fit is caught nowhere: it ends the handler where it is raised.     *)
(* The report is kept as the list of its entries.                          *)
(***************************************************************************)
\* clear the previous fit results
fitAll_clear ==
    /\ pc = "idle"
    /\ fitparameters' = <<>> /\ linefits' = <<>> /\ checked' = <<>>
    /\ pc' = "lines" /\ idx' = 1 /\ local' = NoLocal /\ raised' = "none"
    /\ UNCHANGED <<ioVars, acqVars, planVars, phaseVars, fitVars, estVars, datasets, frequencies, checkState,
                   fitProfile, mode, KittelAnalysis, LinewidthAnalysis, report>>

\* one pass of the loop over the datasets
fitAll_line ==
    /\ pc = "lines" /\ idx <= Len(datasets)
    /\ IF ~checkState[idx]
       THEN /\ checked' = Append(checked, FALSE)
            /\ idx' = idx + 1
            /\ UNCHANGED <<fitparameters, linefits, pc, raised, local>>
       ELSE \E r \in {LineFit(datasets[idx], fitProfile)} :
            /\ checked' = Append(checked, TRUE)
            /\ local' = [local EXCEPT !.calls =
                            Append(@, [op |-> "LineFit", of |-> r.of, arg |-> 0,
                                       returned |-> r.raised = "none", p |-> r.p])]
            /\ IF r.raised # "none"
               THEN /\ raised' = r.raised /\ pc' = "idle"
                    /\ UNCHANGED <<fitparameters, linefits, idx>>
               ELSE /\ fitparameters' = Append(fitparameters, r)
                    /\ linefits' = Append(linefits, [of |-> r.of, profile |-> fitProfile])
                    /\ idx' = idx + 1
                    /\ UNCHANGED <<pc, raised>>
    /\ UNCHANGED <<ioVars, acqVars, planVars, phaseVars, fitVars, estVars, datasets, frequencies, checkState,
                   fitProfile, mode, KittelAnalysis, LinewidthAnalysis, report>>

\* the Kittel fit over the fitted resonance fields and the checked
\* frequencies, and the first part of the message
fitAll_kittel ==
    /\ pc = "lines" /\ idx > Len(datasets)
    /\ \E converges \in BOOLEAN, M \in MValues, gv \in GValues :
       LET resonance_fields == [k \in 1..Len(fitparameters) |-> fitparameters[k].p[2]]
           resonance_frequencies == SelectSeq2(frequencies, checked)
           r == KittelFit(resonance_fields, resonance_frequencies, mode, converges)
           p == KittelParams(M, gv)
           g == KittelG(p)
       IN  IF r.raised # "none"
           THEN /\ raised' = r.raised /\ pc' = "idle"
                /\ local' = [local EXCEPT !.calls =
                                Append(@, [op |-> "KittelFit", of |-> 0,
                                           arg |-> Len(resonance_fields),
                                           returned |-> FALSE, p |-> <<>>])]
                /\ UNCHANGED KittelAnalysis
           ELSE /\ KittelAnalysis' = <<<<resonance_fields, resonance_frequencies>>,
                                       <<"x_fit", "y_fit">>>>
                /\ local' = [local EXCEPT
                       !.calls = Append(@, [op |-> "KittelFit", of |-> 0,
                                            arg |-> Len(resonance_fields),
                                            returned |-> TRUE, p |-> p]),
                       !.p = p, !.g = g,
                       !.message =
                           <<[k |-> "Line profile", name |-> fitProfile],
                             [k |-> "Magnetization", of |-> p[1].name, v |-> p[1].v \div 1000,
                              err |-> p[1].name, unit |-> "kA/m"],
                             [k |-> "g-factor", of |-> "g", v |-> g, err |-> p[2].name,
                              unit |-> ""]>>]
                /\ pc' = "damping"
                /\ UNCHANGED raised
    /\ UNCHANGED <<ioVars, acqVars, planVars, phaseVars, fitVars, estVars, datasets, frequencies, checkState,
                   fitProfile, mode, fitparameters, linefits, checked, LinewidthAnalysis,
                   report, idx>>

\* the line widths, the damping fit, the rest of the message, the report
fitAll_damping ==
    /\ pc = "damping"
    /\ \E converges \in BOOLEAN :
       LET resonance_frequencies == SelectSeq2(frequencies, checked)
           gammas == [k \in 1..Len(fitparameters) |-> fitparameters[k].p[3]]
           sigmas == IF fitProfile \in {"Lorentz", "Asymmetric Lorentz"} THEN <<>>
                     ELSE [k \in 1..Len(fitparameters) |-> fitparameters[k].p[4]]
           widths == gammas
           gamma_prime == gamma_prime_of(local.g)
           r == DampingFit(resonance_frequencies, widths, gamma_prime, converges)
           p == DampingParams
           betas == [k \in 1..Len(fitparameters) |-> fitparameters[k].p[5]]
           pairs == zip(resonance_frequencies, betas)
           call == [op |-> "DampingFit", of |-> 0, arg |-> gamma_prime,
                    returned |-> r.raised = "none", p |-> <<>>]
       IN  IF r.raised # "none"
           THEN /\ raised' = r.raised /\ pc' = "idle"
                /\ local' = [local EXCEPT !.gamma_prime = gamma_prime,
                                          !.calls = Append(@, call)]
                /\ UNCHANGED <<LinewidthAnalysis, report>>
           ELSE /\ LinewidthAnalysis' =
                       IF fitProfile \in {"Lorentz", "Asymmetric Lorentz"}
                       THEN <<<<resonance_frequencies, gammas>>, <<"x_fit", "y_fit">>>>
                       ELSE <<<<resonance_frequencies, gammas, sigmas>>, <<"x_fit", "y_fit">>>>
                /\ local' = [local EXCEPT
                       !.gamma_prime = gamma_prime,
                       !.calls = Append(@, call),
                       !.message = @ \o
                           <<[k |-> "alpha", of |-> p[1].name, err |-> p[1].name, unit |-> ""],
                             [k |-> "DeltaB(0) HWHM", of |-> p[2].name, err |-> p[2].name,
                              unit |-> "T"]>> \o
                           (IF fitProfile = "Asymmetric Lorentz"
                            THEN [j \in 1..Len(pairs) |->
                                     [k |-> "beta row", f |-> pairs[j][1], beta |-> pairs[j][2]]]
                            ELSE <<>>)]
                /\ report' = local'.message
                /\ pc' = "idle"
                /\ UNCHANGED raised
    /\ UNCHANGED <<ioVars, acqVars, planVars, phaseVars, fitVars, estVars, datasets, frequencies, checkState,
                   fitProfile, mode, fitparameters, linefits, checked, KittelAnalysis, idx>>

(***************************************************************************)
(* Fit.fit_derivative(x, y, fitProfile) up to its guess vector p0, on      *)
(* whole-number data.  Fractions are kept as [n, d] = n/d.  With N the     *)
(* number of samples and S the sum of y:                                   *)
(*   offset = mean(y) = S/N;                                               *)
(*   integral = cumtrapz(y - offset, x): N-1 values, the k-th (from 1) is  *)
(*   the trapezoidal sum over x[1]..x[k+1]; kept times 2N;                 *)
(*   width = |x[argmax y] - x[argmin y]| / 2 * sqrt(3): kept without the   *)
(*   factor sqrt(3).                                                       *)
(* With fewer than two samples numpy raises ValueError (argmax or argmin   *)
(* of an empty sequence).                                                  *)
(***************************************************************************)
RECURSIVE SumSeq(_)
SumSeq(s) == IF s = <<>> THEN 0 ELSE s[1] + SumSeq(Tail(s))

\* numpy.argmax: the index of the first occurrence of the maximum
argmax(s) ==
    LET m == SetMax({s[k] : k \in 1..Len(s)})
    IN  SetMin({k \in 1..Len(s) : s[k] = m})

\* scipy.integrate.cumtrapz(y - offset, x), times 2N
cumtrapz_offset(x, y) ==
    LET N == Len(y)
        S == SumSeq(y)
        F[k \in 0..(N - 1)] ==
            IF k = 0 THEN 0
            ELSE F[k - 1] + (x[k + 1] - x[k]) * (N * y[k] + N * y[k + 1] - 2 * S)
    IN  [k \in 1..(N - 1) |-> F[k]]

\* the factors the three if statements multiply the scale by, in turn
ScaleFactors_none(profile) == <<>>

ScaleFactors(profile) ==
    (IF profile = "Voigt" THEN <<[n |-> 10, d |-> 1]>> ELSE <<>>)
    \o (IF profile = "Lorentz" THEN <<[n |-> 1, d |-> 100]>> ELSE <<>>)
    \o (IF profile = "Asymmetric Lorentz" THEN <<[n |-> 1, d |-> 100]>> ELSE <<>>)

RECURSIVE Times(_, _)
Times(v, factors) ==
    IF factors = <<>> THEN v
    ELSE Times([n |-> v.n * factors[1].n, d |-> v.d * factors[1].d], Tail(factors))

\* the index of x and y both guesses are read at: that of the first extremum
\* of integral
PeakIndex(y, integral) ==
    IF argmin(y) < argmax(y) THEN argmin(integral) ELSE argmax(integral)

\* the bounds handed to curve_fit, by position; a bound is -inf (inf = -1),
\* +inf (inf = 1) or the finite fraction n/d (inf = 0)
NegInf == [inf |-> -1, n |-> 0, d |-> 1]
PosInf == [inf |-> 1, n |-> 0, d |-> 1]
Zero == [inf |-> 0, n |-> 0, d |-> 1]

LowerBounds_unbounded(profile) ==
    [k \in 1..Len(GuessOrder(profile)) |-> NegInf]

LowerBounds(profile) ==
    CASE profile = "Lorentz" -> <<NegInf, Zero, Zero, NegInf>>
      [] profile = "Asymmetric Lorentz" -> <<NegInf, Zero, Zero, NegInf, NegInf>>
      [] OTHER -> <<NegInf, Zero, Zero, Zero, NegInf>>

UpperBounds(profile) ==
    CASE profile = "Lorentz" -> <<PosInf, PosInf, PosInf, PosInf>>
      [] profile = "Asymmetric Lorentz" -> <<PosInf, PosInf, PosInf, PosInf, PosInf>>
      [] OTHER -> <<PosInf, PosInf, PosInf, PosInf, PosInf>>

\* lower <= v <= upper, for a fraction v with positive denominator
InBounds(v, lower, upper) ==
    /\ lower.inf = -1 \/ (lower.inf = 0 /\ v.n * lower.d >= lower.n * v.d)
    /\ upper.inf = 1 \/ (upper.inf = 0 /\ v.n * upper.d <= upper.n * v.d)

\* scipy.optimize.curve_fit with bounds (least_squares): a p0 outside the
\* bounds is refused with ValueError ("x0 is infeasible") before any iteration
curve_fit_start(p0, lower, upper) ==
    IF \A k \in 1..Len(p0) : InBounds(p0[k].v, lower[k], upper[k])
    THEN "started" ELSE "ValueError"

fit_derivative_guess(x, y, profile) ==
    IF Len(y) < 2
    THEN [raised |-> "ValueError"]
    ELSE LET N == Len(y)
             offset == [n |-> SumSeq(y), d |-> N]
             width == [n |-> Abs(x[argmax(y)] - x[argmin(y)]), d |-> 2]
             integral == cumtrapz_offset(x, y)
             m == PeakIndex(y, integral)
             center == [n |-> x[m], d |-> 1]
             scale0 == [n |-> N * y[m] - offset.n, d |-> N]
             factors == ScaleFactors(profile)
             scale == Times(scale0, factors)
             value(role) ==
                 CASE role = "scale" -> scale
                   [] role = "center" -> center
                   [] role = "width" -> width
                   [] role = "offset" -> offset
                   [] role = "zero" -> [n |-> 0, d |-> 1]
                   [] role = "milli" -> [n |-> 1, d |-> 1000]
             order == GuessOrder(profile)
             p0 == [k \in 1..Len(order) |-> [role |-> order[k], v |-> value(order[k])]]
         IN  [raised |-> "none", offset |-> offset, width |-> width, integral |-> integral,
              m |-> m, center |-> center, scale0 |-> scale0, factors |-> factors,
              scale |-> scale, p0 |-> p0,
              lower |-> LowerBounds(profile), upper |-> UpperBounds(profile),
              fit |-> curve_fit_start(p0, LowerBounds(profile), UpperBounds(profile))]

\* the field axes: ascending from 0 or from a negative field (a measured
\* field near zero, or one corrected by an offset), each step between 1 and
\* MaxStep
RECURSIVE Axes(_)
Axes(n) ==
    IF n = 0 THEN {<<>>}
    ELSE IF n = 1 THEN {<<b>> : b \in (-MaxStep)..0}
    ELSE {Append(a, Last(a) + s) : a \in Axes(n - 1), s \in 1..MaxStep}

Signals(n) == {q \in SeqsUpTo((-MaxSignal)..MaxSignal, n) : Len(q) = n}

\* the arguments of the call to come
EstInputs ==
    \E n \in 0..MaxCurve, f \in Profiles :
    \E x \in Axes(n), y \in Signals(n) :
        est = [call |-> "none", x |-> x, y |-> y, profile |-> f, out |-> [raised |-> "none"]]

CallFitDerivative ==
    /\ est.call = "none"
    /\ est' = [est EXCEPT !.call = "fit_derivative",
                          !.out = fit_derivative_guess(est.x, est.y, est.profile)]
    /\ UNCHANGED <<ioVars, acqVars, planVars, phaseVars, fitVars, guiVars, disp, lf>>

(***************************************************************************)
(* Fit.LineFit run on several datasets at once, each invocation in two     *)
(* steps: the estimates of fit_derivative (lines 500-541, reading x and y) *)
(* and curve_fit (reading x, y and p0).  Fit has no attributes and the     *)
(* module-level constants are only read, so all an invocation writes is    *)
(* its own locals.  curve_fit is deterministic: its result is kept as the  *)
(* function, data and p0 it was given.                                     *)
(***************************************************************************)
\* the datasets given to them: a unit-step field axis and a two-level signal
ShortCurves ==
    {[x |-> [i \in 1..LineFitSamples |-> i - 1], y |-> y] :
        y \in {q \in SeqsUpTo({0, 1}, LineFitSamples) : Len(q) = LineFitSamples}}

LineFitInputs ==
    \E n \in 1..MaxThreads, f \in Profiles :
    \E ds \in [1..n -> ShortCurves] :
        lf = [k \in 1..n |-> [given |-> ds[k], dataset |-> ds[k], profile |-> f,
                              pc |-> "start", p0 |-> <<>>, result |-> <<>>]]

\* the estimates written to an attribute shared by the invocations
LineFit_estimate_shared(k) ==
    /\ lf[k].pc = "start"
    /\ lf' = [j \in 1..Len(lf) |->
                 [lf[j] EXCEPT
                     !.pc = IF j = k THEN "estimated" ELSE @,
                     !.p0 = fit_derivative_guess(lf[k].dataset.x, lf[k].dataset.y,
                                                 lf[k].profile).p0]]
    /\ UNCHANGED <<ioVars, acqVars, planVars, phaseVars, fitVars, guiVars, est, disp>>

LineFit_estimate(k) ==
    /\ lf[k].pc = "start"
    /\ lf' = [lf EXCEPT ![k].pc = "estimated",
                        ![k].p0 = fit_derivative_guess(lf[k].dataset.x, lf[k].dataset.y,
                                                       lf[k].profile).p0]
    /\ UNCHANGED <<ioVars, acqVars, planVars, phaseVars, fitVars, guiVars, est, disp>>

LineFit_fit(k) ==
    /\ lf[k].pc = "estimated"
    /\ lf' = [lf EXCEPT ![k].pc = "done",
                        ![k].result = <<[f |-> lf[k].profile, x |-> lf[k].dataset.x,
                                         y |-> lf[k].dataset.y, p0 |-> lf[k].p0]>>]
    /\ UNCHANGED <<ioVars, acqVars, planVars, phaseVars, fitVars, guiVars, est, disp>>

(***************************************************************************)
(* The out-of-plane Kittel relation, in the planner and in the fitter.     *)
(* Frequencies are whole numbers of GHz, fields are fractions [n, d] of a  *)
(* tesla, M is a whole number of 100 kA/m, so that mu0*M = 1/8 T for       *)
(* M = 1 (mu0 = 1.2566e-6) and gamma_prime = 14 GHz/T for g = 1.           *)
(***************************************************************************)
mu0 == [n |-> 1, d |-> 8]

\* FMR.kittel_resonance_field_oop with the sign of mu0*M reversed
kittel_resonance_field_oop_minus(f, M, gamma_prime) ==
    [n |-> Abs(f * mu0.d - gamma_prime * mu0.n * M), d |-> gamma_prime * mu0.d]

\* FMR.kittel_resonance_field_oop: abs(f / gamma_prime + mu0*M)
kittel_resonance_field_oop(f, M, gamma_prime) ==
    [n |-> Abs(f * mu0.d + gamma_prime * mu0.n * M), d |-> gamma_prime * mu0.d]

\* Fit.kittel_fitfunction_outofplane: gamma_prime * (B - mu0 * M)
kittel_fitfunction_outofplane(B, M, g) ==
    [n |-> gamma_prime_of(g) * (B.n * mu0.d - mu0.n * M * B.d), d |-> B.d * mu0.d]

\* the arguments of the evaluation to come
DispInputs ==
    \E f \in 0..MaxFreq, M \in (-MaxMag)..MaxMag, g \in 1..MaxGFactor :
        disp = [call |-> "none", f |-> f, M |-> M, g |-> g,
                B |-> [n |-> 0, d |-> 1], back |-> [n |-> 0, d |-> 1]]

\* the planner's expected field, put back into the fitter's dispersion
CallOutOfPlane ==
    /\ disp.call = "none"
    /\ \E B \in {kittel_resonance_field_oop(disp.f, disp.M, gamma_prime_of(disp.g))} :
           disp' = [disp EXCEPT !.call = "oop", !.B = B,
                                !.back = kittel_fitfunction_outofplane(B, disp.M, disp.g)]
    /\ UNCHANGED <<ioVars, acqVars, planVars, phaseVars, fitVars, guiVars, est, lf>>

(***************************************************************************)
(* MainWindow.export.  The old *.xy files and Report.log are removed from  *)
(* the archive first.  np.array(frequencies)[checked] is a boolean-mask    *)
(* selection when checked holds booleans (IndexError when the mask and the *)
(* list differ in length) and selects nothing when checked is empty; the   *)
(* loop then reads linefits[i] for every selected frequency (IndexError    *)
(* past the end of linefits).  A file is known by its name (the frequency  *)
(* of a "%.2fGHz.xy" file) and by what its content was computed from.      *)
(***************************************************************************)
LineFitFile(freq, linefit) == [kind |-> "GHz.xy", name |-> freq, of |-> linefit.of]

AnalysisFiles ==
    <<[kind |-> "analysis", name |-> "KittelData.xy", of |-> KittelAnalysis[1]],
      [kind |-> "analysis", name |-> "KittelFit.xy", of |-> KittelAnalysis[2]],
      [kind |-> "analysis", name |-> "LinewidthData.xy", of |-> LinewidthAnalysis[1]],
      [kind |-> "analysis", name |-> "LinewidthFit.xy", of |-> LinewidthAnalysis[2]],
      [kind |-> "analysis", name |-> "Report.log", of |-> report]>>

export ==
    /\ pc = "idle"
    /\ IF checked # <<>> /\ Len(checked) # Len(frequencies)
       THEN written' = [files |-> <<>>, raised |-> "IndexError"]
       ELSE LET freqs == IF checked = <<>> THEN <<>> ELSE SelectSeq2(frequencies, checked)
                n == IF Len(freqs) < Len(linefits) THEN Len(freqs) ELSE Len(linefits)
                files == [i \in 1..n |-> LineFitFile(freqs[i], linefits[i])]
            IN  IF Len(freqs) > Len(linefits)
                THEN written' = [files |-> files, raised |-> "IndexError"]
                ELSE written' = [files |-> files \o AnalysisFiles, raised |-> "none"]
    /\ UNCHANGED <<stdout, acqVars, planVars, phaseVars, fitVars, guiVars, estVars>>

(***************************************************************************)
(* FMR.fmr_measurement on one FMR instance, run by one thread, and         *)
(* FMR.stop, which another thread may call between any two of its steps.   *)
(* STOP is polled: before the offset measurement, before the set-up,       *)
(* before the modulation-field reading, before the loop over the           *)
(* frequencies, at the top of every pass of that loop and of the loops     *)
(* over the field points in get_offset and field_sweep.  A pass of a       *)
(* point loop (poll, then measure) is one step; the poll at the top of the *)
(* frequency loop and the start of the frequency are two steps.  A sweep   *)
(* record is known by its frequency, the number of points of its plan and  *)
(* the number of points that were measured; the rest are still zero.       *)
(***************************************************************************)
OffsetPoints == 31

\* what the checks "if self.STOP: break" and "if not self.STOP:" read
Polled_never(STOP) == FALSE
Polled(STOP) == STOP

NoMeasurement ==
    [pc |-> "idle", STOP |-> FALSE, nfreq |-> 0, npoints |-> 0, k |-> 0, i |-> 0,
     started |-> <<>>, archive |-> <<>>, shutdown |-> <<>>, stoppedAt |-> "never",
     stoppedIn |-> 0]

\* the frequencies and the field points of the measurement to come
MeasurementInputs ==
    \E nfreq \in 1..MaxFrequencies, npoints \in 1..MaxSweepPoints :
        meas = [NoMeasurement EXCEPT !.pc = "offset", !.nfreq = nfreq, !.npoints = npoints]

OnlyMeas == UNCHANGED <<ioVars, acq, planVars, phaseVars, fitVars, guiVars, estVars>>

\* FMR.stop, while fmr_measurement has not returned
stop ==
    /\ meas.pc \notin {"idle", "returned"} /\ ~meas.STOP
    /\ meas' = [meas EXCEPT !.STOP = TRUE, !.stoppedAt = meas.pc, !.stoppedIn = meas.k]
    /\ OnlyMeas

\* if not self.STOP: offset = self.get_offset()   (up to the point loop)
fm_offset ==
    /\ meas.pc = "offset"
    /\ meas' = IF Polled(meas.STOP) THEN [meas EXCEPT !.pc = "setup"]
               ELSE [meas EXCEPT !.pc = "get_offset", !.i = 1]
    /\ OnlyMeas

\* one pass of the loop of get_offset, or its end and the return
get_offset_loop ==
    /\ meas.pc = "get_offset"
    /\ meas' = IF meas.i > OffsetPoints \/ Polled(meas.STOP)
               THEN [meas EXCEPT !.pc = "setup", !.i = 0]
               ELSE [meas EXCEPT !.i = @ + 1]
    /\ OnlyMeas

\* if not self.STOP: calibration file, frequencies, generator and lock-in on;
\* with or without the block, the modulation-field block comes next
fm_setup ==
    /\ meas.pc = "setup"
    /\ meas' = [meas EXCEPT !.pc = "modulation"]
    /\ OnlyMeas

\* if not self.STOP: read the modulation field; then the frequency loop's guard
fm_modulation ==
    /\ meas.pc = "modulation"
    /\ meas' = [meas EXCEPT !.pc = "frequencies"]
    /\ OnlyMeas

\* if not self.STOP: enter the loop over the frequencies
fm_frequencies ==
    /\ meas.pc = "frequencies"
    /\ meas' = IF Polled(meas.STOP) THEN [meas EXCEPT !.pc = "ramp_down"]
               ELSE [meas EXCEPT !.pc = "next"]
    /\ OnlyMeas

\* for f in frequencies: if self.STOP: break
fm_next ==
    /\ meas.pc = "next"
    /\ meas' = IF meas.k = meas.nfreq THEN [meas EXCEPT !.pc = "ramp_down"]
               ELSE IF Polled(meas.STOP) THEN [meas EXCEPT !.k = @ + 1, !.pc = "ramp_down"]
               ELSE [meas EXCEPT !.k = @ + 1, !.pc = "start"]
    /\ OnlyMeas

\* print the frequency, set the generator to it, call field_sweep up to its
\* point loop (plan, Teslameter range, ramp to the initial field)
fm_start ==
    /\ meas.pc = "start"
    /\ meas' = [meas EXCEPT !.started = Append(@, meas.k), !.pc = "sweep", !.i = 1]
    /\ OnlyMeas

\* one pass of the point loop of field_sweep, or its end and the return
sweep_point ==
    /\ meas.pc = "sweep"
    /\ meas' = IF meas.i > meas.npoints \/ Polled(meas.STOP)
               THEN [meas EXCEPT !.pc = "write"]
               ELSE [meas EXCEPT !.i = @ + 1]
    /\ OnlyMeas

\* datasets.append([fields, voltages]); self.writedatafile(...)
fm_write ==
    /\ meas.pc = "write"
    /\ meas' = [meas EXCEPT !.archive = Append(@, [f |-> meas.k, planned |-> meas.npoints,
                                                   measured |-> meas.i - 1]),
                            !.pc = "next", !.i = 0]
    /\ OnlyMeas

\* the graceful shutdown, statement by statement, and the return
ShutdownSequence == <<"ramp_down", "rf_off", "lockin_off", "close">>

fm_shutdown ==
    /\ \E j \in 1..Len(ShutdownSequence) :
           /\ meas.pc = ShutdownSequence[j]
           /\ meas' = [meas EXCEPT !.shutdown = Append(@, ShutdownSequence[j]),
                                   !.pc = IF j = Len(ShutdownSequence) THEN "return"
                                          ELSE ShutdownSequence[j + 1]]
    /\ OnlyMeas

fm_return ==
    /\ meas.pc = "return"
    /\ meas' = [meas EXCEPT !.pc = "returned"]
    /\ OnlyMeas

\* the steps of the thread that runs fmr_measurement
fmr_measurement ==
    \/ fm_offset \/ get_offset_loop \/ fm_setup \/ fm_modulation \/ fm_frequencies
    \/ fm_next \/ fm_start \/ sweep_point \/ fm_write \/ fm_shutdown \/ fm_return

(***************************************************************************)
(* The acquisition window (OpenFMR_GUI.py).  on_run and on_stop run in the *)
(* GUI thread, one at a time; every click on Start that gets past the file *)
(* check starts a thread on run_script.  run_script reads the widgets,     *)
(* creates a new FMR instance and stores it in self.fmr, runs              *)
(* fmr_measurement on it (measurement, then the graceful shutdown), and    *)
(* resets the buttons.  An FMR instance is known by its number; self.fmr   *)
(* is 0 while it is None.  A thread remembers whether Stop was clicked     *)
(* while it was running.                                                   *)
(***************************************************************************)
NoAcquisition ==
    [start_enabled |-> TRUE, stop_enabled |-> FALSE, fmr |-> 0, STOP |-> <<>>,
     threads |-> <<>>]

OnlyAcq == UNCHANGED <<ioVars, meas, planVars, phaseVars, fitVars, guiVars, estVars>>

Running(t) == t.pc # "done"

\* a click on the enabled Start button with a file name that is not taken
on_run ==
    /\ acq.start_enabled /\ Len(acq.threads) < MaxRuns
    /\ acq' = [acq EXCEPT !.start_enabled = FALSE, !.stop_enabled = TRUE,
                          !.threads = Append(@, [pc |-> "parameters", inst |-> 0,
                                                 stopClicked |-> FALSE])]
    /\ OnlyAcq

\* a click on the enabled Stop button
on_stop ==
    /\ acq.stop_enabled
    /\ LET clicked == [j \in 1..Len(acq.threads) |->
                          IF Running(acq.threads[j])
                          THEN [acq.threads[j] EXCEPT !.stopClicked = TRUE]
                          ELSE acq.threads[j]]
           target == acq.fmr       \* if self.fmr: self.fmr.stop()
       IN  acq' = IF target # 0
                  THEN [acq EXCEPT !.STOP[target] = TRUE, !.start_enabled = TRUE,
                                   !.stop_enabled = FALSE, !.threads = clicked]
                  ELSE [acq EXCEPT !.threads = clicked]
    /\ OnlyAcq

\* run_script of thread j: the parameters are read and written to the stream
rs_parameters(j) ==
    /\ acq.threads[j].pc = "parameters"
    /\ acq' = [acq EXCEPT !.threads[j].pc = "create"]
    /\ OnlyAcq

\* self.fmr = fmr.FMR()
rs_create(j) ==
    /\ acq.threads[j].pc = "create"
    /\ acq' = [acq EXCEPT !.STOP = Append(@, FALSE), !.fmr = Len(acq.STOP) + 1,
                          !.threads[j].inst = Len(acq.STOP) + 1,
                          !.threads[j].pc = "measure"]
    /\ OnlyAcq

\* self.fmr.fmr_measurement(...): the measurement ends, by itself or because
\* the instance's STOP flag was seen, and the shutdown begins
rs_measure(j) ==
    /\ acq.threads[j].pc = "measure"
    /\ acq' = [acq EXCEPT !.threads[j].pc = "shutdown"]
    /\ OnlyAcq

\* the shutdown ends and fmr_measurement returns
rs_shutdown(j) ==
    /\ acq.threads[j].pc = "shutdown"
    /\ acq' = [acq EXCEPT !.threads[j].pc = "reset"]
    /\ OnlyAcq

\* stdout is reset, Start is enabled, Stop is disabled, the log is written
rs_reset(j) ==
    /\ acq.threads[j].pc = "reset"
    /\ acq' = [acq EXCEPT !.start_enabled = TRUE, !.stop_enabled = FALSE,
                          !.threads[j].pc = "done"]
    /\ OnlyAcq

run_script(j) ==
    \/ rs_parameters(j) \/ rs_create(j) \/ rs_measure(j) \/ rs_shutdown(j) \/ rs_reset(j)

PlanInit == plan = NoPlan
PhaseInit == phase = [call |-> "idle", X |-> <<>>, Y |-> <<>>, phasor |-> FALSE, theta |-> 0]
FitCallInit ==
    fitcall = [call |-> "idle", x |-> <<>>, y |-> <<>>, mode |-> "in-plane",
               converges |-> TRUE, raised |-> "none", fitted |-> FALSE, x_fit |-> <<>>,
               y_fit |-> <<>>, p |-> <<>>]
GuiInit ==
    /\ datasets = <<>> /\ frequencies = <<>> /\ checkState = <<>>
    /\ fitProfile = "Asymmetric Lorentz" /\ mode = "in-plane"
    /\ fitparameters = <<>> /\ linefits = <<>> /\ checked = <<>>
    /\ KittelAnalysis = <<<<>>, <<>>>> /\ LinewidthAnalysis = <<<<>>, <<>>>>
    /\ report = <<>> /\ pc = "idle" /\ idx = 0 /\ local = NoLocal /\ raised = "none"

IoInit == stdout = <<>> /\ written = [files |-> <<>>, raised |-> "none"]

EstInit == est = [call |-> "idle"] /\ disp = [call |-> "idle"] /\ lf = <<>>

AcqInit == meas = NoMeasurement /\ acq = NoAcquisition

Init == IoInit /\ AcqInit /\ PlanInit /\ PhaseInit /\ FitCallInit /\ GuiInit /\ EstInit

InitPlanner == IoInit /\ AcqInit /\ PlanInputs /\ PhaseInit /\ FitCallInit /\ GuiInit /\ EstInit

NextPlanner == CallCalcBRange \/ field_sweep

SpecPlanner == InitPlanner /\ [][NextPlanner]_vars

InitAutophase == IoInit /\ AcqInit /\ PlanInit /\ PhaseInputs /\ FitCallInit /\ GuiInit /\ EstInit

NextAutophase == CallAutophase

SpecAutophase == InitAutophase /\ [][NextAutophase]_vars

InitFitters == IoInit /\ AcqInit /\ PlanInit /\ PhaseInit /\ FitInputs /\ GuiInit /\ EstInit

NextFitters == CallKittelFit \/ CallDampingFit

SpecFitters == InitFitters /\ [][NextFitters]_vars

InitEstimator == IoInit /\ AcqInit /\ PlanInit /\ PhaseInit /\ FitCallInit /\ GuiInit
                 /\ EstInputs /\ disp = [call |-> "idle"] /\ lf = <<>>

NextEstimator == CallFitDerivative

SpecEstimator == InitEstimator /\ [][NextEstimator]_vars

InitLineFits == IoInit /\ AcqInit /\ PlanInit /\ PhaseInit /\ FitCallInit /\ GuiInit
                /\ est = [call |-> "idle"] /\ disp = [call |-> "idle"] /\ LineFitInputs

NextLineFits ==
    \/ \E k \in 1..Len(lf) : LineFit_estimate(k)
    \/ \E k \in 1..Len(lf) : LineFit_fit(k)

SpecLineFits == InitLineFits /\ [][NextLineFits]_vars

InitDispersion == IoInit /\ AcqInit /\ PlanInit /\ PhaseInit /\ FitCallInit /\ GuiInit
                  /\ est = [call |-> "idle"] /\ DispInputs /\ lf = <<>>

NextDispersion == CallOutOfPlane

SpecDispersion == InitDispersion /\ [][NextDispersion]_vars

\* one loaded archive with its check marks, profile and mode; Fit All is the
\* only thing clicked
FitAllInputs ==
    \E a \in Archives(MaxArchive), f \in Profiles, m \in Modes :
    \E cs \in [1..Len(a) -> BOOLEAN] :
        /\ datasets = a /\ frequencies = [i \in 1..Len(a) |-> a[i].freq] /\ checkState = cs
        /\ fitProfile = f /\ mode = m
        /\ fitparameters = <<>> /\ linefits = <<>> /\ checked = <<>>
        /\ KittelAnalysis = <<<<>>, <<>>>> /\ LinewidthAnalysis = <<<<>>, <<>>>>
        /\ report = <<>> /\ pc = "idle" /\ idx = 0 /\ local = NoLocal /\ raised = "none"

InitFitAll == IoInit /\ AcqInit /\ PlanInit /\ PhaseInit /\ FitCallInit /\ FitAllInputs /\ EstInit

NextFitAll == fitAll_clear \/ fitAll_line \/ fitAll_kittel \/ fitAll_damping

SpecFitAll == InitFitAll /\ [][NextFitAll]_vars

\* one fmr_measurement and the calls of stop that may reach it
InitMeasurement ==
    /\ IoInit /\ PlanInit /\ PhaseInit /\ FitCallInit /\ GuiInit /\ EstInit
    /\ MeasurementInputs /\ acq = NoAcquisition

NextMeasurement == stop \/ fmr_measurement

SpecMeasurement == InitMeasurement /\ [][NextMeasurement]_vars

\* the thread that runs fmr_measurement is scheduled again and again, and
\* every device call and every sleep of a step returns
SpecMeasurementLive == SpecMeasurement /\ WF_vars(fmr_measurement)

\* the acquisition window: clicks and the progress of the threads
InitAcquisition ==
    /\ IoInit /\ PlanInit /\ PhaseInit /\ FitCallInit /\ GuiInit /\ EstInit
    /\ meas = NoMeasurement /\ acq = NoAcquisition

NextAcquisition ==
    \/ on_run
    \/ on_stop
    \/ \E j \in 1..Len(acq.threads) : run_script(j)

SpecAcquisition == InitAcquisition /\ [][NextAcquisition]_vars

Next ==
    \/ loadData \/ toggleCheck \/ selectProfile \/ selectMode
    \/ fitAll_clear \/ fitAll_line \/ fitAll_kittel \/ fitAll_damping
    \/ export

Spec == Init /\ [][Next]_vars

\* the analysis window driven by loading, ticking, fitting and exporting
NextExport ==
    \/ loadData \/ toggleCheck
    \/ fitAll_clear \/ fitAll_line \/ fitAll_kittel \/ fitAll_damping
    \/ export

SpecExport == Init /\ [][NextExport]_vars

(***************************************************************************)
(* Claims about the field-range planner (checked under SpecPlanner).       *)
(***************************************************************************)
Planned == plan.call # "none" /\ plan.raised = "none"
Clipped == plan.B0 - plan.multiplier * plan.deltaB < 0
\* numerator (over plan.sampling) of B0 + multiplier*deltaB + offset
UpperEndN == plan.sampling * (plan.B0 + plan.multiplier * plan.deltaB + plan.offset)
LowerEndN ==
    plan.sampling * ((IF Clipped THEN 0 ELSE plan.B0 - plan.multiplier * plan.deltaB)
                     + plan.offset)

C3_EvenlySpaced ==
    Planned =>
        \A i \in 1..(Len(plan.B) - 1) :
            /\ plan.B[i + 1] > plan.B[i]
            /\ plan.B[i + 1] - plan.B[i] = plan.deltaB

C3_Witness ==
    /\ Planned /\ Len(plan.B) >= 3 /\ plan.sampling > 1 /\ plan.deltaB > 1
    /\ plan.B[3] - plan.B[2] = plan.deltaB

\* C4: the first element of the sequence returned by calc_B_range equals
\* max(0, B0 - multiplier*deltaB) + offset.
C4_FirstIsClippedLowerEnd ==
    (Planned /\ Len(plan.B) > 0) => plan.B[1] = LowerEndN

C4_Witness ==
    /\ plan.call = "calc_B_range" /\ Clipped /\ plan.offset # 0
    /\ Len(plan.B) > 0 /\ plan.B[1] = plan.sampling * plan.offset

\* C5 (as stated): no field value of the plan that field_sweep obtains from
\* calc_B_range is negative, whatever the offset.
C5_PlanNonNegative ==
    (plan.call = "field_sweep" /\ plan.raised = "none") =>
        \A i \in 1..Len(plan.B) : plan.B[i] >= 0

\* C5 (amended): every value of the plan of field_sweep is at least the offset
\* handed to calc_B_range (the plan is clipped at zero before it is shifted), so
\* no value is negative when the measured offset is non-negative or when
\* B0 > 0.3 T, where field_sweep disables the offset.
C5_PlanAtLeastOffset ==
    (plan.call = "field_sweep" /\ plan.raised = "none") =>
        /\ \A i \in 1..Len(plan.B) : plan.B[i] >= plan.sampling * plan.offset
        /\ (plan.offsetArg >= 0 \/ plan.B0 > HighFieldLimit) =>
               \A i \in 1..Len(plan.B) : plan.B[i] >= 0

C5_Witness ==
    /\ plan.call = "field_sweep" /\ plan.raised = "none"
    /\ plan.offsetArg < 0 /\ Clipped
    /\ Len(plan.B) > 0 /\ plan.B[1] = plan.sampling * plan.offsetArg

(***************************************************************************)
(* Claims about the autophase estimator (checked under SpecAutophase).     *)
(***************************************************************************)
Phased == phase.call = "autophase"

\* sum over the samples of the squared quadrature Y' = X sin(phi) + Y cos(phi)
QuadratureSq(X, Y, deg) ==
    LET q[j \in 0..Len(X)] ==
            IF j = 0 THEN 0
            ELSE q[j - 1] + (X[j] * Sin(deg) + Y[j] * Cos(deg)) * (X[j] * Sin(deg) + Y[j] * Cos(deg))
    IN  q[Len(X)]

\* C6: autophase evaluates exactly the 181 whole-degree angles -90..90 and
\* selects the angle of smallest quadrature RMS, the smallest such angle on a tie.
C6_FirstMinimumOfGrid ==
    Phased =>
        /\ Len(phase.RMS) = 181
        /\ \A k \in 1..181 :
               /\ PHI[k].n = (k - 91) * PHI[k].d
               /\ phase.RMS[k] = QuadratureSq(phase.X, phase.Y, k - 91)
        /\ phase.i \in 1..181
        /\ \A k \in 1..181 :
               /\ phase.RMS[phase.i] <= phase.RMS[k]
               /\ (k < phase.i => phase.RMS[k] > phase.RMS[phase.i])

\* a tie between two angles on a non-zero signal, resolved to the smaller angle
C6_Witness ==
    /\ Phased /\ Len(phase.X) = 2 /\ phase.RMS[phase.i] > 0
    /\ \E k \in 1..181 : k > phase.i /\ phase.RMS[k] = phase.RMS[phase.i]

\* C7 (as stated): for every whole-degree theta in -90..90, X = cos(theta),
\* Y = sin(theta), the selected phase is -theta and has the minimal RMS.
C7_RecoversMinusTheta ==
    (Phased /\ phase.phasor /\ phase.theta \in (-90)..90) =>
        /\ Degrees(PHI[phase.i]) = -phase.theta
        /\ \A k \in 1..181 : phase.RMS[phase.i] <= phase.RMS[k]

\* C7 (amended): the same for -90 < theta <= 90; at theta = -90 the angles -90
\* and +90 both null the quadrature and the first, -90 = theta, is selected.
C7_RecoversMinusThetaAboveMinus90 ==
    (Phased /\ phase.phasor /\ phase.theta \in (-89)..90) =>
        /\ Degrees(PHI[phase.i]) = -phase.theta
        /\ \A k \in 1..181 : phase.RMS[phase.i] <= phase.RMS[k]

C7_Witness ==
    /\ Phased /\ phase.phasor /\ phase.theta = 30
    /\ Degrees(PHI[phase.i]) = -30 /\ phase.RMS[phase.i] = 0

\* C8: autophase returns the in-phase component X' of (X + iY) rotated by the
\* selected angle, as long as the input, and reports that angle as a whole degree.
C8_ReturnsRotatedInPhase ==
    Phased =>
        LET sel == PHI[phase.i]
        IN  /\ Len(phase.X_max) = Len(phase.X)
            /\ \A j \in 1..Len(phase.X) :
                   phase.X_max[j] = phase.X[j] * Cos(Degrees(sel)) - phase.Y[j] * Sin(Degrees(sel))
            /\ phase.printed * sel.d = sel.n

C8_Witness ==
    /\ Phased /\ Len(phase.X) = 2 /\ phase.printed = -45
    /\ phase.X_max # phase.X /\ phase.X_max # phase.Y

(***************************************************************************)
(* Claims about the aggregate fits (checked under SpecFitters) and the     *)
(* fit batch (checked under Spec).                                         *)
(***************************************************************************)
Fitted(i) == \E k \in 1..Len(fitparameters) : fitparameters[k].of = datasets[i].freq

\* C1: when the line fit of one checked dataset fails, fitAll still fits the
\* remaining checked datasets: when the handler ends, every checked dataset
\* whose line fit converges has its fit result.
C1_BatchSurvivesFailedFit ==
    [][(pc = "lines" /\ pc' = "idle") =>
         (\A i \in 1..Len(datasets) :
              (checkState[i] /\ datasets[i].converges) => Fitted(i))']_vars

\* C9: KittelFit (in either mode) and DampingFit, given fewer than 2 data
\* points, fail with InsufficientData and with no other error.
C9_InsufficientData ==
    (/\ fitcall.call \in {"KittelFit", "DampingFit"}
     /\ fitcall.mode \in Modes
     /\ Len(fitcall.x) < 2) => fitcall.raised = "InsufficientData"

\* C10: KittelFit given a mode other than "in-plane" and "out-of-plane" fails
\* with InvalidMode, without running a fit.
C10_InvalidMode ==
    (fitcall.call = "KittelFit" /\ fitcall.mode \notin Modes) =>
        (fitcall.raised = "InvalidMode" /\ ~fitcall.fitted)

(***************************************************************************)
(* Claims about one run of fitAll (checked under SpecFitAll).              *)
(***************************************************************************)
Calls == local.calls
Succeeded ==
    /\ pc = "idle" /\ Len(Calls) > 0
    /\ Last(Calls).op = "DampingFit" /\ Last(Calls).returned

\* C11: in fitAll, KittelFit is invoked only after LineFit has returned for
\* every checked dataset, DampingFit only after KittelFit has returned, and
\* the gamma_prime passed to DampingFit is computed from the g of that Kittel
\* result, the g written to the report.
C11_FitOrder ==
    \A j \in 1..Len(Calls) :
        /\ Calls[j].op = "KittelFit" =>
               \A i \in 1..Len(datasets) : checkState[i] =>
                   \E k \in 1..(j - 1) :
                       /\ Calls[k].op = "LineFit" /\ Calls[k].returned
                       /\ Calls[k].of = datasets[i].freq
        /\ Calls[j].op = "DampingFit" =>
               /\ j > 1 /\ Calls[j - 1].op = "KittelFit" /\ Calls[j - 1].returned
               /\ \E q \in 1..Len(Calls[j - 1].p) :
                      /\ Calls[j - 1].p[q].name = "g"
                      /\ Calls[j].arg = gamma_prime_of(Calls[j - 1].p[q].v)
                      /\ (Succeeded /\ j = Len(Calls)) =>
                             \E e \in 1..Len(report) :
                                 /\ report[e].k = "g-factor"
                                 /\ report[e].v = Calls[j - 1].p[q].v

\* a finished run over three datasets, one of them unchecked, with M and g
\* of different magnitude
C11_Witness ==
    /\ Succeeded /\ Len(datasets) = 3 /\ \E i \in 1..3 : ~checkState[i]
    /\ Len(Calls) = 4 /\ Calls[3].p[2].v = 1 /\ Calls[4].arg = 14

VariantLength(profile) ==
    CASE profile = "Lorentz" -> 4
      [] profile = "Asymmetric Lorentz" -> 5
      [] profile = "Voigt" -> 5

\* C12: every fit result stored by fitAll has a parameter vector of the
\* length of the selected variant and a square covariance of that dimension,
\* and every index fitAll reads from it (center at 1, Gamma at 2, sigma at 3
\* for Voigt, beta at 4 for Asymmetric Lorentz, counted from 0) exists and
\* holds the named parameter.
C12_FitResultShape ==
    /\ \A k \in 1..Len(fitparameters) :
           LET r == fitparameters[k]
           IN  /\ Len(r.p) = VariantLength(fitProfile)
               /\ r.pcov.rows = Len(r.p) /\ r.pcov.cols = Len(r.p)
               /\ r.p[1 + 1].name = "B0" /\ r.p[2 + 1].name = "Gamma"
               /\ fitProfile = "Voigt" => r.p[3 + 1].name = "sigma"
               /\ fitProfile = "Asymmetric Lorentz" => r.p[4 + 1].name = "beta"
    /\ Succeeded =>
           /\ \A k \in 1..Len(KittelAnalysis[1][1]) : KittelAnalysis[1][1][k].name = "B0"
           /\ \A k \in 1..Len(LinewidthAnalysis[1][2]) : LinewidthAnalysis[1][2][k].name = "Gamma"
           /\ fitProfile = "Voigt" =>
                  /\ Len(LinewidthAnalysis[1]) = 3
                  /\ \A k \in 1..Len(LinewidthAnalysis[1][3]) :
                         LinewidthAnalysis[1][3][k].name = "sigma"
           /\ \A e \in 1..Len(report) :
                  report[e].k = "beta row" => report[e].beta.name = "beta"

\* a finished Voigt run over three fitted datasets
C12_Witness ==
    /\ Succeeded /\ fitProfile = "Voigt" /\ Len(fitparameters) = 3
    /\ Len(LinewidthAnalysis[1]) = 3 /\ Len(LinewidthAnalysis[1][3]) = 3

ReportEntries(key) == {e \in 1..Len(report) : report[e].k = key}
CheckedDatasets == {i \in 1..Len(datasets) : checkState[i]}

\* C14: after a successful fitAll the report holds the line-shape name, M
\* with its error in kA/m, g, alpha and DeltaB0 each with its error; it has
\* a beta table exactly when the profile is Asymmetric Lorentz, with one row
\* per checked dataset pairing the beta fitted from that dataset with the
\* dataset's frequency.
C14_ReportContents ==
    Succeeded =>
        /\ \E e \in ReportEntries("Line profile") : report[e].name = fitProfile
        /\ \E e \in ReportEntries("Magnetization") :
               /\ report[e].of = "M" /\ report[e].err = "M" /\ report[e].unit = "kA/m"
               /\ report[e].v * 1000 = local.p[1].v
        /\ \E e \in ReportEntries("g-factor") :
               report[e].of = "g" /\ report[e].err = "g" /\ report[e].v = local.p[2].v
        /\ \E e \in ReportEntries("alpha") : report[e].of = "alpha" /\ report[e].err = "alpha"
        /\ \E e \in ReportEntries("DeltaB(0) HWHM") :
               report[e].of = "deltaB0" /\ report[e].err = "deltaB0"
        /\ (ReportEntries("beta row") # {}) <=> (fitProfile = "Asymmetric Lorentz")
        /\ fitProfile = "Asymmetric Lorentz" =>
               /\ Cardinality(ReportEntries("beta row")) = Cardinality(CheckedDatasets)
               /\ \A i \in CheckedDatasets :
                      \E e \in ReportEntries("beta row") : report[e].f = datasets[i].freq
               /\ \A e \in ReportEntries("beta row") :
                      report[e].beta.name = "beta" /\ report[e].beta.of = report[e].f

\* a finished Asymmetric Lorentz run with the middle dataset of three unchecked
C14_Witness ==
    /\ Succeeded /\ fitProfile = "Asymmetric Lorentz"
    /\ Len(datasets) = 3 /\ checkState = <<TRUE, FALSE, TRUE>>
    /\ Cardinality(ReportEntries("beta row")) = 2

(***************************************************************************)
(* Claims about the parameter estimator (checked under SpecEstimator).     *)
(***************************************************************************)
Estimated == est.call = "fit_derivative" /\ est.out.raised = "none"

\* the trapezoidal integral of (y - offset) from the first sample up to
\* sample s, times 2N
IntegralUpTo(x, y, s) ==
    LET N == Len(y)
        S == SumSeq(y)
        F[j \in 1..N] ==
            IF j = 1 THEN 0
            ELSE F[j - 1] + (x[j] - x[j - 1]) * (N * y[j - 1] + N * y[j] - 2 * S)
    IN  F[s]

\* sample s is where the integral up to the sample is least (dir = 1) or
\* greatest (dir = -1) among the samples of T
ExtremalAt(s, T, dir) ==
    /\ s \in T
    /\ \A t \in T : dir * IntegralUpTo(est.x, est.y, s) <= dir * IntegralUpTo(est.x, est.y, t)

\* C18: when the minimum of the signal comes before its maximum, center is
\* the field of the sample at which the cumulative trapezoidal integral of
\* (signal - offset) up to that sample is minimal and scale is the signal of
\* that sample minus offset; otherwise the sample where it is maximal is
\* used.  (The samples compared are all of them, or all but the first, at
\* which the integral is 0 by definition.)
C18_GuessAtIntegralExtremum ==
    Estimated =>
        LET N == Len(est.y)
            dir == IF argmin(est.y) < argmax(est.y) THEN 1 ELSE -1
        IN  \E s \in 1..N :
                /\ est.out.center.n = est.x[s] * est.out.center.d
                /\ est.out.scale0.n * N = (N * est.y[s] - SumSeq(est.y)) * est.out.scale0.d
                /\ ExtremalAt(s, 1..N, dir) \/ ExtremalAt(s, 2..N, dir)

\* C19: the estimator multiplies the raw scale by exactly one factor, set by
\* the variant: 10 for Voigt, 1/100 for Lorentz and for Asymmetric Lorentz.
C19_OneScaleFactor ==
    Estimated =>
        /\ Len(est.out.factors) = 1
        /\ est.out.factors[1] = (IF est.profile = "Voigt" THEN [n |-> 10, d |-> 1]
                                 ELSE [n |-> 1, d |-> 100])
        /\ est.out.scale.n * est.out.scale0.d * est.out.factors[1].d
               = est.out.scale0.n * est.out.factors[1].n * est.out.scale.d

\* a Voigt call and its scale ten times a non-zero raw scale
C19_Witness ==
    /\ Estimated /\ est.profile = "Voigt" /\ est.out.scale0.n # 0
    /\ est.out.scale.n * est.out.scale0.d = 10 * est.out.scale0.n * est.out.scale.d

\* the estimate that belongs at the place of a parameter of the variant's
\* evaluation function
GuessFor(name) ==
    CASE name = "A" -> est.out.scale
      [] name = "B0" -> est.out.center
      [] name = "Gamma" -> est.out.width
      [] name = "offset" -> est.out.offset
      [] name = "beta" -> [n |-> 0, d |-> 1]
      [] name = "sigma" -> [n |-> 1, d |-> 1000]

\* C20: the guess vector is assembled in the argument order of the variant's
\* evaluation function: Lorentz [scale, center, width, offset]; Asymmetric
\* Lorentz [scale, center, width, offset, beta = 0]; Voigt [scale, center,
\* width, sigma = 0.001, offset].
C20_GuessOrder ==
    Estimated =>
        LET args == ParameterOrder(est.profile)
            p0 == est.out.p0
        IN  /\ Len(p0) = Len(args)
            /\ args = (CASE est.profile = "Lorentz" -> <<"A", "B0", "Gamma", "offset">>
                         [] est.profile = "Asymmetric Lorentz" ->
                                <<"A", "B0", "Gamma", "offset", "beta">>
                         [] est.profile = "Voigt" -> <<"A", "B0", "Gamma", "sigma", "offset">>)
            /\ \A k \in 1..Len(p0) : p0[k].v = GuessFor(args[k])

\* a Voigt call whose offset guess differs from the sigma guess
C20_Witness ==
    /\ Estimated /\ est.profile = "Voigt" /\ Len(est.out.p0) = 5
    /\ est.out.p0[4].v = [n |-> 1, d |-> 1000] /\ est.out.p0[5].v # est.out.p0[4].v
    /\ est.out.scale.n # 0 /\ est.out.center.n # 0

(***************************************************************************)
(* Claims about concurrent line fits (checked under SpecLineFits).         *)
(***************************************************************************)
\* what LineFit returns for a dataset when it runs alone
LineFitAlone(d, profile) ==
    <<[f |-> profile, x |-> d.x, y |-> d.y, p0 |-> fit_derivative_guess(d.x, d.y, profile).p0]>>

\* C13: LineFit invocations on different datasets are independent: under
\* every interleaving of their steps no invocation changes its input
\* dataset, and each returns what it returns when run alone.
C13_LineFitsIndependent ==
    \A k \in 1..Len(lf) :
        /\ lf[k].dataset = lf[k].given
        /\ lf[k].pc = "done" => lf[k].result = LineFitAlone(lf[k].given, lf[k].profile)

\* one invocation has finished between the two steps of another, on a
\* dataset with different estimates
C13_Witness ==
    /\ Len(lf) = 2 /\ lf[1].pc = "estimated" /\ lf[2].pc = "done"
    /\ lf[1].p0 # lf[2].p0

(***************************************************************************)
(* Claims about effects (checked under SpecAutophase).                     *)
(***************************************************************************)
\* C15: the core operations LineFit, KittelFit, DampingFit, autophase and
\* calc_B_range only return their result: after a call of any of them
\* nothing has been written to the standard output.
C15_CoreWritesNothing ==
    (\/ phase.call = "autophase"
     \/ plan.call = "calc_B_range"
     \/ fitcall.call \in {"KittelFit", "DampingFit"}
     \/ \E k \in 1..Len(lf) : lf[k].pc = "done") => stdout = <<>>

(***************************************************************************)
(* Claims about the Kittel relations (checked under SpecDispersion).       *)
(***************************************************************************)
Evaluated == disp.call = "oop"
\* the sign of f/gamma_prime + mu0*M
FieldSum == disp.f * mu0.d + gamma_prime_of(disp.g) * mu0.n * disp.M

\* C17 (as stated): for every f >= 0, every M, negative M included, and every
\* g > 0, kittel_fitfunction_outofplane at kittel_resonance_field_oop(f, M,
\* gamma') with the same M and g gives back f.
C17_DispersionInverse ==
    Evaluated => disp.back.n = disp.f * disp.back.d

\* C17 (amended): it gives back f when f/gamma' + mu0*M >= 0, so for every
\* M >= 0; when f/gamma' + mu0*M < 0 the expected field is the absolute
\* value and the dispersion gives -f - 2*gamma'*mu0*M, which is not f.
C17_DispersionInverseNonNegative ==
    Evaluated =>
        /\ FieldSum >= 0 => disp.back.n = disp.f * disp.back.d
        /\ FieldSum < 0 =>
               /\ disp.back.n * mu0.d
                      = (-disp.f * mu0.d - 2 * gamma_prime_of(disp.g) * mu0.n * disp.M)
                            * disp.back.d
               /\ disp.back.n # disp.f * disp.back.d

\* a negative M small enough for the relation still to invert
C17_Witness ==
    /\ Evaluated /\ disp.M < 0 /\ disp.f > 0 /\ FieldSum > 0
    /\ disp.back.n = disp.f * disp.back.d

\* the positions of the variant's parameter order bounded below at 0
BoundedBelow(profile) ==
    IF profile = "Voigt" THEN {"B0", "Gamma", "sigma"} ELSE {"B0", "Gamma"}

\* C21: for every variant the lower bound is 0 at exactly the positions of
\* the center (B0) and Gamma, and of sigma for Voigt, in the variant's
\* parameter order and -infinity elsewhere; every upper bound is +infinity.
C21_BoundsByPosition ==
    Estimated =>
        LET args == ParameterOrder(est.profile)
        IN  /\ Len(est.out.lower) = Len(args) /\ Len(est.out.upper) = Len(args)
            /\ \A k \in 1..Len(args) :
                   /\ est.out.lower[k] = (IF args[k] \in BoundedBelow(est.profile)
                                          THEN Zero ELSE NegInf)
                   /\ est.out.upper[k] = PosInf

\* a Voigt call: sigma at the fourth place is bounded, offset at the fifth is not
C21_Witness ==
    /\ Estimated /\ est.profile = "Voigt"
    /\ est.out.lower[4] = Zero /\ est.out.lower[5] = NegInf /\ est.out.p0[4].role = "milli"

\* C23: for every sweep curve, curves with negative fields and constant
\* signals included, and every variant, the guess handed to the optimizer
\* lies within the bounds handed with it.
C23_GuessWithinBounds ==
    Estimated =>
        \A k \in 1..Len(est.out.p0) :
            InBounds(est.out.p0[k].v, est.out.lower[k], est.out.upper[k])

\* the call returned (raised nothing)
Returned == fitcall.call \in {"KittelFit", "DampingFit"} /\ fitcall.raised = "none"

\* the model function the call evaluates, and the gamma_prime it fixes
ModelOf(c) ==
    IF c.call = "KittelFit" THEN [f |-> KittelModel(c.mode), gamma_prime |-> 0]
    ELSE [f |-> "damping_fitfunction", gamma_prime |-> gamma_prime_of(2)]

\* C22: the dense curve that KittelFit and DampingFit return has exactly 100
\* x-values, ascending from 0 to the largest field (KittelFit) or the largest
\* frequency (DampingFit) of the input, and each y-value is the fitted model
\* evaluated at the x-value of the same place with the returned parameters.
C22_DenseCurve ==
    Returned =>
        /\ Len(fitcall.x_fit) = 100 /\ Len(fitcall.y_fit) = 100
        /\ fitcall.x_fit[1].n = 0
        /\ \E k \in 1..Len(fitcall.x) :
               /\ \A j \in 1..Len(fitcall.x) : fitcall.x[j] <= fitcall.x[k]
               /\ fitcall.x_fit[100].n = fitcall.x[k] * fitcall.x_fit[100].d
        /\ \A k \in 1..99 :
               fitcall.x_fit[k].n * fitcall.x_fit[k + 1].d
                   < fitcall.x_fit[k + 1].n * fitcall.x_fit[k].d
        /\ \A k \in 1..100 :
               fitcall.y_fit[k] = [f |-> ModelOf(fitcall).f, at |-> fitcall.x_fit[k],
                                   p |-> fitcall.p,
                                   gamma_prime |-> ModelOf(fitcall).gamma_prime]

\* a returned call whose largest input value is not the first one
C22_Witness ==
    /\ Returned /\ fitcall.call = "DampingFit"
    /\ fitcall.x = <<1, 2>> /\ fitcall.x_fit[100].n = 2 * fitcall.x_fit[100].d
    /\ fitcall.y_fit[100].at = fitcall.x_fit[100] /\ fitcall.p = <<"alpha", "deltaB0">>

C22_Witness_Kittel ==
    /\ Returned /\ fitcall.call = "KittelFit" /\ fitcall.mode = "out-of-plane"
    /\ fitcall.x = <<1, 2>> /\ fitcall.y_fit[1].f = "kittel_fitfunction_outofplane"

\* field_sweep has been called
Swept == plan.call = "field_sweep"

\* C30: field_sweep accepts exactly the accuracies "low", "medium" and "high"
\* and maps them to (multiplier, sampling) = (12, 4), (8, 6), (6, 8); any other
\* value that is passed raises ValueError with nothing printed or commanded
\* before; and a call that does not pass accuracy is accepted.
C30_AccuracyAccepted ==
    Swept =>
        /\ plan.accuracy = "low" =>
               plan.raised = "none" /\ plan.multiplier = 12 /\ plan.sampling = 4
        /\ plan.accuracy = "medium" =>
               plan.raised = "none" /\ plan.multiplier = 8 /\ plan.sampling = 6
        /\ plan.accuracy = "high" =>
               plan.raised = "none" /\ plan.multiplier = 6 /\ plan.sampling = 8
        /\ (plan.passed /\ plan.accuracy \notin {"low", "medium", "high"}) =>
               plan.raised = "ValueError" /\ stdout = <<>> /\ plan.B = <<>>
        /\ ~plan.passed => plan.raised = "none"

\* the part of C30 about values that are passed
C30_PassedAccuracy ==
    (Swept /\ plan.passed) => C30_AccuracyAccepted

\* the line-fit files among the written ones
LineFiles(files) == SelectSeq(files, LAMBDA w : w.kind = "GHz.xy")

\* C24: whatever loading, ticking, fitting and exporting came before, an
\* export writes exactly one line-fit file for each dataset fitted by the last
\* fitAll, in their order, each named by the frequency of the dataset that
\* fit was computed from.
C24_ExportMatchesFits ==
    [][export =>
          LET files == LineFiles(written'.files)
          IN  /\ Len(files) = Len(linefits)
              /\ \A i \in 1..Len(files) :
                     files[i] = [kind |-> "GHz.xy", name |-> linefits[i].of,
                                 of |-> linefits[i].of]]_vars

\* the stored mask, line fits and frequency list describe the same datasets
MaskDescribesFits ==
    /\ Len(checked) = Len(frequencies)
    /\ Len(linefits) = Len(SelectSeq2(frequencies, checked))
    /\ \A i \in 1..Len(linefits) : linefits[i].of = SelectSeq2(frequencies, checked)[i]

\* C24, the invariant it rests on: between two runs of fitAll the stored
\* state describes one set of datasets, empty before the first run.
C24_StoredStateConsistent ==
    (pc = "idle" /\ (checked # <<>> \/ linefits # <<>>)) => MaskDescribesFits

\* C24 for an export that follows a completed fitAll of the loaded archive
C24_ExportAfterFit ==
    [][(export /\ MaskDescribesFits) =>
          LET files == LineFiles(written'.files)
          IN  /\ Len(files) = Len(linefits)
              /\ \A i \in 1..Len(files) :
                     files[i] = [kind |-> "GHz.xy", name |-> linefits[i].of,
                                 of |-> linefits[i].of]]_vars

\* the stored analysis state is empty, as after construction
AnalysisEmpty ==
    /\ fitparameters = <<>> /\ linefits = <<>> /\ checked = <<>>
    /\ KittelAnalysis = <<<<>>, <<>>>> /\ LinewidthAnalysis = <<<<>>, <<>>>>
    /\ report = <<>>

\* the stored analysis state is that of one completed fitAll: the Kittel and
\* line-width data are those of the stored per-dataset results and the report
\* names their profile
AnalysisOfOneRun ==
    /\ Len(linefits) = Len(fitparameters)
    /\ Len(SelectSeq(checked, LAMBDA c : c)) = Len(fitparameters)
    /\ KittelAnalysis[1] # <<>> /\ LinewidthAnalysis[1] # <<>> /\ report # <<>>
    /\ KittelAnalysis[1][1] = [k \in 1..Len(fitparameters) |-> fitparameters[k].p[2]]
    /\ KittelAnalysis[1][2] = [k \in 1..Len(linefits) |-> linefits[k].of]
    /\ LinewidthAnalysis[1][1] = KittelAnalysis[1][2]
    /\ LinewidthAnalysis[1][2] = [k \in 1..Len(fitparameters) |-> fitparameters[k].p[3]]
    /\ \A k \in 1..Len(linefits) : report[1].name = linefits[k].profile

\* the last fitAll ended with an uncaught exception
FitAllFailed == pc = "idle" /\ raised # "none"

\* C25: if fitAll fails partway, the stored analysis state is either entirely
\* that of a completed fitAll or entirely empty, never new per-dataset results
\* next to another run's Kittel and line-width analysis and report.
C25_FailureLeavesConsistentState ==
    FitAllFailed => (AnalysisEmpty \/ AnalysisOfOneRun)

\* what C25 is measured against: whenever the last fitAll completed, the
\* stored analysis state is that of one run (or empty before the first run)
C25_SuccessLeavesConsistentState ==
    (pc = "idle" /\ raised = "none") => (AnalysisEmpty \/ AnalysisOfOneRun)

\* a failed fitAll that left new per-dataset results next to the Kittel and
\* line-width analysis and the report of an earlier run
C25_Mixture ==
    /\ FitAllFailed /\ report # <<>> /\ KittelAnalysis[1] # <<>>
    /\ Len(fitparameters) # Len(KittelAnalysis[1][1])

(***************************************************************************)
(* Claims about the acquisition window (checked under SpecAcquisition).    *)
(***************************************************************************)
RunningThreads == {j \in 1..Len(acq.threads) : Running(acq.threads[j])}

\* C26: under every interleaving of Start clicks, Stop clicks and thread
\* progress, at most one run_script thread is executing, and the Start button
\* is enabled only when no thread is still running (its shutdown included).
C26_OneMeasurementThread ==
    /\ Cardinality(RunningThreads) <= 1
    /\ acq.start_enabled => RunningThreads = {}

\* C27: whenever Stop was clicked while a thread was running, the STOP flag
\* is set on the FMR instance that thread executes, also when the click came
\* before the thread created its instance and on a second or later run.
C27_StopReachesRunningInstance ==
    \A j \in 1..Len(acq.threads) :
        (Running(acq.threads[j]) /\ acq.threads[j].stopClicked /\ acq.threads[j].inst # 0)
            => acq.STOP[acq.threads[j].inst]

\* C27 for a click that finds self.fmr holding the running thread's instance
C27_StopReachesCurrentInstance ==
    [][(on_stop /\ acq.fmr # 0) => acq'.STOP[acq.fmr]]_vars

(***************************************************************************)
(* Claims about fmr_measurement (checked under SpecMeasurement and, for    *)
(* what must eventually happen, under SpecMeasurementLive).                *)
(***************************************************************************)
\* C29: every sweep record that fmr_measurement writes to the archive comes
\* from a field_sweep that measured every point of its plan.
C29_WrittenSweepsComplete ==
    \A r \in 1..Len(meas.archive) : meas.archive[r].measured = meas.archive[r].planned

\* C29 as long as stop has not been called
C29_CompleteUnlessStopped ==
    ~meas.STOP => C29_WrittenSweepsComplete

\* two run_script threads executing at once
C26_TwoThreads == Cardinality(RunningThreads) = 2

\* a click on Stop during the second run that set the flag of the first run's
\* instance: the second thread then measures on an instance that is not stopped
C27_StaleInstance ==
    /\ Len(acq.threads) = 2 /\ acq.threads[1].pc = "done"
    /\ acq.threads[2].pc = "measure" /\ acq.threads[2].stopClicked
    /\ ~acq.STOP[acq.threads[2].inst] /\ ~acq.stop_enabled

\* fmr_measurement has returned after the full shutdown sequence
ShutDown == meas.pc = "returned" /\ meas.shutdown = ShutdownSequence

\* C28 (as stated): once stop() has been called during fmr_measurement, no
\* further frequency is started, and the full shutdown sequence (field
\* current to zero, RF off, lock-in off, devices closed) is eventually
\* executed and fmr_measurement returns.
C28_NoFurtherFrequency ==
    /\ [][meas.STOP => meas'.started = meas.started]_vars
    /\ meas.STOP ~> ShutDown

\* C28 (amended): once stop() has been called during fmr_measurement, the
\* only frequency that is still started is the one whose pass of the loop had
\* already got past its STOP check, and no field point of any sweep is
\* measured after the sweep's next check; the full shutdown sequence is
\* eventually executed, in its order, and fmr_measurement returns.
C28_StopLeadsToShutdown ==
    /\ [][(meas.STOP /\ meas.pc # "start") => meas'.started = meas.started]_vars
    /\ [][(meas.STOP /\ meas.pc = "sweep") => meas'.i = meas.i]_vars
    /\ [](meas.STOP => Len(meas.started) <= meas.stoppedIn)
    /\ meas.STOP ~> ShutDown

\* a measurement stopped in the middle of its first sweep that has shut down
\* and returned without starting its second frequency
C28_Witness ==
    /\ ShutDown /\ meas.stoppedAt = "sweep" /\ meas.nfreq = 2
    /\ meas.started = <<1>> /\ Len(meas.archive) = 1

\* a measurement stopped between the check of the loop and the start of the
\* frequency: the frequency is started, none of its points is measured
C28_Witness_Window ==
    /\ ShutDown /\ meas.stoppedAt = "start" /\ meas.started = <<1>>
    /\ meas.archive = <<[f |-> 1, planned |-> meas.npoints, measured |-> 0]>>

====
